---- MODULE Spec2Model ----
(***************************************************************************)
(* quickproxy: a programmable forward HTTP proxy (quickproxy/proxy.py).    *)
(*                                                                         *)
(* Text that the program parses or assembles (URLs, header values, cookie  *)
(* strings) is a sequence of one-character strings.  None is Python's      *)
(* None.  The handler of one inbound request is ProxyHandler; its state is *)
(* indexed by the request.                                                 *)
(***************************************************************************)
EXTENDS Integers, Sequences, FiniteSets, TLC

\* ------------------------------------------------------------------------
\* Python values
\* ------------------------------------------------------------------------

\* Python's None (never equal to a text, whose elements are one character long).
None == <<"<None>">>

\* Truth value of an optional text: None and u'' are false.
Truthy(v) == v # None /\ v # <<>>

\* x or y
Or(x, y) == IF Truthy(x) THEN x ELSE y

Digit == <<"0", "1", "2", "3", "4", "5", "6", "7", "8", "9">>

IsDigit(c) == \E i \in 1..10 : Digit[i] = c

DigitValue(c) == (CHOOSE i \in 1..10 : Digit[i] = c) - 1

RECURSIVE StrNat(_)
\* str(n) for an integer n >= 0
StrNat(n) == IF n < 10 THEN <<Digit[n + 1]>> ELSE StrNat(n \div 10) \o <<Digit[(n % 10) + 1]>>

RECURSIVE IntOf(_)
\* int(s, 10) for a text of digits
IntOf(s) ==
    IF Len(s) = 0 THEN 0
    ELSE 10 * IntOf(SubSeq(s, 1, Len(s) - 1)) + DigitValue(s[Len(s)])

\* str.format of a field: None is rendered as the text None
Format(v) == IF v = None THEN <<"N", "o", "n", "e">> ELSE v

\* s.find(c): the first index of character c in s, 0 when absent
Find(s, c) ==
    IF \E i \in 1..Len(s) : s[i] = c
    THEN CHOOSE i \in 1..Len(s) : s[i] = c /\ \A j \in 1..(i - 1) : s[j] # c
    ELSE 0

\* s.rfind(c): the last index of character c in s, 0 when absent
RFind(s, c) ==
    IF \E i \in 1..Len(s) : s[i] = c
    THEN CHOOSE i \in 1..Len(s) : s[i] = c /\ \A j \in (i + 1)..Len(s) : s[j] # c
    ELSE 0

\* s[i:] with i counted from 1
From(s, i) == SubSeq(s, i, Len(s))

\* s.startswith(p)
StartsWith(s, p) == Len(s) >= Len(p) /\ SubSeq(s, 1, Len(p)) = p

\* sub in s
Contains(s, sub) ==
    \E i \in 1..(Len(s) - Len(sub) + 1) : SubSeq(s, i, i + Len(sub) - 1) = sub

\* s.lstrip(c)
LStrip(s, c) ==
    IF \A i \in 1..Len(s) : s[i] = c THEN <<>>
    ELSE From(s, CHOOSE i \in 1..Len(s) : s[i] # c /\ \A j \in 1..(i - 1) : s[j] = c)

UpperLetters ==
    <<"A", "B", "C", "D", "E", "F", "G", "H", "I", "J", "K", "L", "M",
      "N", "O", "P", "Q", "R", "S", "T", "U", "V", "W", "X", "Y", "Z">>

LowerLetters ==
    <<"a", "b", "c", "d", "e", "f", "g", "h", "i", "j", "k", "l", "m",
      "n", "o", "p", "q", "r", "s", "t", "u", "v", "w", "x", "y", "z">>

LetterCount == Len(UpperLetters)

LowerChar(c) ==
    IF \E i \in 1..LetterCount : UpperLetters[i] = c
    THEN LowerLetters[CHOOSE i \in 1..LetterCount : UpperLetters[i] = c]
    ELSE c

UpperChar(c) ==
    IF \E i \in 1..LetterCount : LowerLetters[i] = c
    THEN UpperLetters[CHOOSE i \in 1..LetterCount : LowerLetters[i] = c]
    ELSE c

\* s.lower()
Lower(s) == [i \in 1..Len(s) |-> LowerChar(s[i])]

\* ------------------------------------------------------------------------
\* urlparse.urlparse, and the attributes of its result the program reads
\* ------------------------------------------------------------------------

\* the characters urlsplit accepts in a scheme
SchemeChars ==
    {UpperLetters[i] : i \in 1..LetterCount} \cup {LowerLetters[i] : i \in 1..LetterCount}
        \cup {Digit[i] : i \in 1..10} \cup {"+", "-", "."}

\* the index where the netloc ends: the first of / ? # at or after position 3
NetlocEnd(s) ==
    LET stops == {i \in 3..Len(s) : s[i] \in {"/", "?", "#"}}
    IN IF stops = {} THEN Len(s) + 1
       ELSE CHOOSE i \in stops : \A j \in stops : i <= j

\* urlsplit: scheme, netloc, path, query, fragment
urlparse(url) ==
    LET i == Find(url, ":")
        rest0 == From(url, i + 1)
        isScheme ==
            /\ i > 1
            /\ \A k \in 1..(i - 1) : url[k] \in SchemeChars
            /\ \/ SubSeq(url, 1, i - 1) = <<"h", "t", "t", "p">>
               \/ \E k \in 1..Len(rest0) : ~IsDigit(rest0[k])
        scheme == IF isScheme THEN Lower(SubSeq(url, 1, i - 1)) ELSE <<>>
        u1 == IF isScheme THEN rest0 ELSE url
        hasNetloc == StartsWith(u1, <<"/", "/">>)
        e == NetlocEnd(u1)
        netloc == IF hasNetloc THEN SubSeq(u1, 3, e - 1) ELSE <<>>
        u2 == IF hasNetloc THEN From(u1, e) ELSE u1
        h == Find(u2, "#")
        fragment == IF h > 0 THEN From(u2, h + 1) ELSE <<>>
        u3 == IF h > 0 THEN SubSeq(u2, 1, h - 1) ELSE u2
        q == Find(u3, "?")
        query == IF q > 0 THEN From(u3, q + 1) ELSE <<>>
        path == IF q > 0 THEN SubSeq(u3, 1, q - 1) ELSE u3
    IN [scheme |-> scheme, netloc |-> netloc, path |-> path,
        query |-> query, fragment |-> fragment]

\* netloc.split('@')[-1]
HostPort(netloc) == From(netloc, RFind(netloc, "@") + 1)

\* ParseResult.hostname
hostname(p) ==
    LET hp == HostPort(p.netloc)
        c == Find(hp, ":")
    IN IF c > 0 THEN Lower(SubSeq(hp, 1, c - 1))
       ELSE IF hp = <<>> THEN None
       ELSE Lower(hp)

\* None in an integer field (a port)
NoPort == 0 - 1

\* ParseResult.port: an integer, or NoPort for None (for a port text of digits;
\* int() raises ValueError for any other text)
port(p) ==
    LET hp == HostPort(p.netloc)
        c == Find(hp, ":")
        after == From(hp, c + 1)
        c2 == Find(after, ":")
        digits == IF c2 > 0 THEN SubSeq(after, 1, c2 - 1) ELSE after
    IN IF c > 0 /\ digits # <<>> THEN IntOf(digits) ELSE NoPort

\* ParseResult.username
username(p) ==
    LET a == RFind(p.netloc, "@")
        userinfo == SubSeq(p.netloc, 1, a - 1)
        c == Find(userinfo, ":")
    IN IF a = 0 THEN None
       ELSE IF c > 0 THEN SubSeq(userinfo, 1, c - 1)
       ELSE userinfo

\* ParseResult.password
password(p) ==
    LET a == RFind(p.netloc, "@")
        userinfo == SubSeq(p.netloc, 1, a - 1)
        c == Find(userinfo, ":")
    IN IF a = 0 THEN None
       ELSE IF c > 0 THEN From(userinfo, c + 1)
       ELSE None

\* ------------------------------------------------------------------------
\* Header containers
\* ------------------------------------------------------------------------

\* Header names and values used by the program and by the inputs.
HostName == <<"H", "o", "s", "t">>
SetCookieName == <<"S", "e", "t", "-", "C", "o", "o", "k", "i", "e">>
SetCookieLower == <<"s", "e", "t", "-", "c", "o", "o", "k", "i", "e">>
ContentEncodingName ==
    <<"C", "o", "n", "t", "e", "n", "t", "-", "E", "n", "c", "o", "d", "i", "n", "g">>
TransferEncodingName ==
    <<"T", "r", "a", "n", "s", "f", "e", "r", "-", "E", "n", "c", "o", "d", "i", "n", "g">>
ContentTypeName == <<"C", "o", "n", "t", "e", "n", "t", "-", "T", "y", "p", "e">>
Gzip == <<"g", "z", "i", "p">>

\* HTTPHeaders._normalize_name: each dash-separated word capitalized
NormalizeName(s) ==
    [i \in 1..Len(s) |->
        IF i = 1 \/ s[i - 1] = "-" THEN UpperChar(s[i]) ELSE LowerChar(s[i])]

\* A header container is [kind, items]: kind "HTTPHeaders" is tornado's
\* case-insensitive multi-valued mapping (what a wire request or response
\* carries), kind "dict" a plain dictionary (the default of ResponseObj);
\* items is the sequence of <<name, value>> pairs in insertion order.
HTTPHeaders(items) == [kind |-> "HTTPHeaders", items |-> items]

Dict(items) == [kind |-> "dict", items |-> items]

\* the name a container files key under
KeyIn(hs, key) == IF hs.kind = "HTTPHeaders" THEN NormalizeName(key) ELSE key

\* key in headers
HasKey(hs, key) == \E i \in 1..Len(hs.items) : hs.items[i][1] = KeyIn(hs, key)

RECURSIVE Join(_, _)
\* sep.join(values)
Join(values, sep) ==
    IF values = <<>> THEN <<>>
    ELSE IF Len(values) = 1 THEN values[1]
    ELSE values[1] \o sep \o Join(Tail(values), sep)

RECURSIVE ValuesOf(_, _)
\* the values filed under name, in order
ValuesOf(items, name) ==
    IF items = <<>> THEN <<>>
    ELSE IF items[1][1] = name THEN <<items[1][2]>> \o ValuesOf(Tail(items), name)
    ELSE ValuesOf(Tail(items), name)

\* headers.get_list(name)
get_list(hs, name) == ValuesOf(hs.items, KeyIn(hs, name))

\* headers.get(key, default): the values joined with a comma
Get(hs, key, default) ==
    IF HasKey(hs, key) THEN Join(get_list(hs, key), <<",">>) ELSE default

RECURSIVE Without(_, _)
Without(items, name) ==
    IF items = <<>> THEN <<>>
    ELSE IF items[1][1] = name THEN Without(Tail(items), name)
    ELSE <<items[1]>> \o Without(Tail(items), name)

\* del headers[key]
Del(hs, key) == [hs EXCEPT !.items = Without(@, KeyIn(hs, key))]

RECURSIVE Names(_)
\* the distinct names of items, each at its first place
Names(items) ==
    IF items = <<>> THEN <<>>
    ELSE <<items[1][1]>> \o Names(Without(Tail(items), items[1][1]))

\* headers.keys()
Keys(hs) == Names(hs.items)

\* headers.setdefault(key, value)
SetDefault(hs, key, value) ==
    IF HasKey(hs, key) THEN hs
    ELSE [hs EXCEPT !.items = Append(@, <<KeyIn(hs, key), value>>)]

\* ------------------------------------------------------------------------
\* RequestObj, ResponseObj and the wire objects
\* ------------------------------------------------------------------------

\* No object (a field that holds no request, response or exception yet).
NoObj == [class |-> "NoneType"]

\* context={} of make_requestobj: a fresh dictionary per call.  id stands for
\* the identity of the dictionary, data for what a hook stored in it.
NewContext(id) == [id |-> id, data |-> <<>>]

\* The default context={} of ResponseObj.__init__ and of handle_response.
DefaultContext == [id |-> 0, data |-> <<>>]

\* ResponseObj(**kwargs) with every field given
ResponseObj(code, headers, pass_headers, body, context) ==
    [class |-> "ResponseObj", code |-> code, headers |-> headers,
     pass_headers |-> pass_headers, body |-> body, context |-> context]

\* pass_headers is a bool or a collection of names
PassBool(b) == [type |-> "bool", flag |-> b, names |-> <<>>]

PassList(names) == [type |-> "list", flag |-> FALSE, names |-> names]

\* tornado.httpclient.HTTPResponse as the program reads it
HTTPResponse(code, headers, body) ==
    [class |-> "HTTPResponse", code |-> code, headers |-> headers, body |-> body]

DefaultPort == 80

UnreachableCode == 599

ServerError == 500

\* ------------------------------------------------------------------------
\* ProxyHandler.make_requestobj and ProxyHandler.make_request
\* ------------------------------------------------------------------------

Http == <<"h", "t", "t", "p">>

\* make_requestobj(request) of the handler of inbound request id:
\* <<requestobj, parsedurl>>
make_requestobj(id, request) ==
    LET url == IF ~StartsWith(request.uri, Http)
               THEN request.protocol \o <<":", "/", "/">> \o request.host \o request.uri
               ELSE request.uri
        parsedurl == urlparse(url)
        p == port(parsedurl)
    IN <<[class |-> "RequestObj",
          method |-> request.method,
          protocol |-> parsedurl.scheme,
          username |-> None,
          password |-> None,
          host |-> hostname(parsedurl),
          port |-> IF p = NoPort \/ p = 0 THEN DefaultPort ELSE p,
          path |-> parsedurl.path,
          query |-> parsedurl.query,
          fragment |-> parsedurl.fragment,
          body |-> request.body,
          headers |-> request.headers,
          follow_redirects |-> FALSE,
          validate_cert |-> TRUE,
          context |-> NewContext(id)],
         parsedurl>>

\* the user:password@ part of the URL make_request builds
Auth(obj, parsedurl) ==
    IF Truthy(obj.username) \/ Truthy(username(parsedurl))
         \/ Truthy(obj.password) \/ Truthy(password(parsedurl))
    THEN Format(Or(obj.username, username(parsedurl))) \o <<":">>
            \o Format(Or(obj.password, password(parsedurl))) \o <<"@">>
    ELSE <<>>

\* Faulty variant: no port is ever written
PortPartNever(obj) == <<>>

\* the port part of the URL make_request builds
PortPart(obj) ==
    IF obj.port # NoPort /\ obj.port # 0 /\ obj.port # DefaultPort
    THEN <<":">> \o StrNat(obj.port)
    ELSE <<>>

\* the URL make_request builds
MakeUrl(obj, parsedurl) ==
    obj.protocol \o <<":", "/", "/">> \o Auth(obj, parsedurl) \o Format(obj.host)
        \o PortPart(obj)
        \o (IF Truthy(obj.path) THEN <<"/">> \o LStrip(obj.path, "/") ELSE <<>>)
        \o (IF Truthy(obj.query) THEN <<"?">> \o LStrip(obj.query, "?") ELSE <<>>)
        \o Format(obj.fragment)

\* the body make_request hands to HTTPRequest
RequestBody(obj) == obj.body

\* make_request(obj, parsedurl): the tornado.httpclient.HTTPRequest
make_request(obj, parsedurl) ==
    [class |-> "HTTPRequest",
     url |-> MakeUrl(obj, parsedurl),
     method |-> obj.method,
     body |-> RequestBody(obj),
     headers |-> SetDefault(obj.headers, HostName, obj.host),
     follow_redirects |-> obj.follow_redirects,
     allow_nonstandard_methods |-> TRUE]

\* the methods handle_request expects a body for
BodyMethods == {"POST", "PATCH", "PUT"}

\* handle_request, before the request hook: a body is dropped unless the
\* method expects one
DropBody(requestobj) ==
    LET body_expected == requestobj.method \in BodyMethods
        body_present == requestobj.body # None
    IN IF body_present /\ ~body_expected
       THEN [requestobj EXCEPT !.body = None]
       ELSE requestobj

\* ------------------------------------------------------------------------
\* The text the handler writes
\* ------------------------------------------------------------------------

\* 'Internal server error. Server unreachable.'
UnreachableBody ==
    <<"I", "n", "t", "e", "r", "n", "a", "l", " ", "s", "e", "r", "v", "e",
      "r", " ", "e", "r", "r", "o", "r", ".", " ", "S", "e", "r", "v", "e",
      "r", " ", "u", "n", "r", "e", "a", "c", "h", "a", "b", "l", "e", ".">>

\* 'Internal server error:\n'
HardFailurePrefix ==
    <<"I", "n", "t", "e", "r", "n", "a", "l", " ", "s", "e", "r", "v", "e",
      "r", " ", "e", "r", "r", "o", "r", ":", "\n">>

\* ------------------------------------------------------------------------
\* Cookie.BaseCookie and dateutil.parser, as handle_response uses them
\* ------------------------------------------------------------------------

ExpiresAttr == <<"e", "x", "p", "i", "r", "e", "s">>

\* Morsel._reserved
Reserved ==
    {ExpiresAttr,
     <<"p", "a", "t", "h">>,
     <<"c", "o", "m", "m", "e", "n", "t">>,
     <<"d", "o", "m", "a", "i", "n">>,
     <<"m", "a", "x", "-", "a", "g", "e">>,
     <<"s", "e", "c", "u", "r", "e">>,
     <<"v", "e", "r", "s", "i", "o", "n">>,
     <<"h", "t", "t", "p", "o", "n", "l", "y">>}

\* a new Morsel: every reserved attribute is the empty text
Morsel(key, value) == [key |-> key, value |-> value, attrs |-> [a \in Reserved |-> <<>>]]

RECURSIVE SplitOn(_, _)
\* s.split(c)
SplitOn(s, c) ==
    LET i == Find(s, c)
    IN IF i = 0 THEN <<s>> ELSE <<SubSeq(s, 1, i - 1)>> \o SplitOn(From(s, i + 1), c)

RECURSIVE Strip(_)
\* s.strip()
Strip(s) ==
    IF s = <<>> THEN s
    ELSE IF s[1] = " " THEN Strip(Tail(s))
    ELSE IF s[Len(s)] = " " THEN Strip(SubSeq(s, 1, Len(s) - 1))
    ELSE s

RECURSIVE PairsOf(_)
\* the key=value pairs of the parts of a cookie string, in order
PairsOf(parts) ==
    IF parts = <<>> THEN <<>>
    ELSE LET t == Strip(parts[1])
             e == Find(t, "=")
         IN IF e > 1
            THEN <<<<Strip(SubSeq(t, 1, e - 1)), Strip(From(t, e + 1))>>>>
                    \o PairsOf(Tail(parts))
            ELSE PairsOf(Tail(parts))

\* whether the jar holds a cookie named key
InJar(jar, key) == \E i \in 1..Len(jar) : jar[i].key = key

\* the place of the cookie named key
JarIndex(jar, key) == CHOOSE i \in 1..Len(jar) : jar[i].key = key

\* BaseCookie.__set: the morsel of an existing name is kept and given the value
JarSet(jar, key, value) ==
    IF InJar(jar, key)
    THEN [jar EXCEPT ![JarIndex(jar, key)].value = value]
    ELSE Append(jar, Morsel(key, value))

RECURSIVE ParsePairs(_, _, _)
\* BaseCookie.__ParseString: a reserved key sets an attribute of the current
\* morsel M (none before the first name), any other key names a cookie
ParsePairs(jar, pairs, M) ==
    IF pairs = <<>> THEN jar
    ELSE LET K == pairs[1][1]
             V == pairs[1][2]
         IN IF Lower(K) \in Reserved
            THEN ParsePairs(
                    IF M # None
                    THEN [jar EXCEPT ![JarIndex(jar, M)].attrs[Lower(K)] = V]
                    ELSE jar,
                    Tail(pairs), M)
            ELSE ParsePairs(JarSet(jar, K, V), Tail(pairs), K)

\* cookies.load(c)
Load(jar, c) == ParsePairs(jar, PairsOf(SplitOn(c, ";")), None)

RECURSIVE LoadAll(_, _)
\* for c in values: cookies.load(c)
LoadAll(jar, values) ==
    IF values = <<>> THEN jar ELSE LoadAll(Load(jar, values[1]), Tail(values))

\* whether dateutil.parser.parse reads the text: a text of four digits is read
\* as a year, a text that holds no digit is not a date
DateParses(s) == Len(s) = 4 /\ \A i \in 1..Len(s) : IsDigit(s[i])

\* dateutil.parser.parse(s) for a text it reads
ParseDate(s) == [year |-> IntOf(s)]

\* expires=None
NoDate == [year |-> 0]

\* ------------------------------------------------------------------------
\* State
\* ------------------------------------------------------------------------

VARIABLES
    req_callback,   \* the request hook the proxy was made with (its name)
    resp_callback,  \* the response hook
    err_callback,   \* the error hook
    pc,             \* per inbound request: "new", "fetching", "done", "raised"
    request,        \* per inbound request: the wire request handed to handle_request
    modrequestobj,  \* per inbound request: what the request hook returned
    outreq,         \* per inbound request: the HTTPRequest handed to fetch
    fetched,        \* per inbound request: what client.fetch delivered
    calls,          \* per inbound request: the calls made so far, [fn, arg] in order
    mod,            \* per inbound request: what the response or error hook returned
    client,         \* per inbound request: the response written to the client
    exc             \* per inbound request: the exception that ended the handler

vars ==
    <<req_callback, resp_callback, err_callback, pc, request, modrequestobj,
      outreq, fetched, calls, mod, client, exc>>

config == <<req_callback, resp_callback, err_callback>>

\* ------------------------------------------------------------------------
\* The hooks an embedder may supply (DEFAULT_CALLBACK is "identity")
\* ------------------------------------------------------------------------

TextX == <<"x">>
TextB == <<"b">>
TextOk == <<"o", "k">>
TextT == <<"t">>
TextV == <<"v">>

HttpsPort == 443

\* req_callback(requestobj)
ApplyRequestHook(name, obj) ==
    CASE name = "identity" -> obj
      [] name = "tag_context" -> [obj EXCEPT !.context.data = obj.path]
      [] name = "set_body" -> [obj EXCEPT !.body = TextX]
      [] name = "port_zero" -> [obj EXCEPT !.port = 0]
      [] name = "port_https" -> [obj EXCEPT !.port = HttpsPort]
      [] name = "set_username" -> [obj EXCEPT !.username = TextV]
      [] name = "set_password" -> [obj EXCEPT !.password = TextX]
      [] name = "respond" ->
            ResponseObj(200, Dict(<<>>), PassBool(TRUE), TextOk, DefaultContext)
      [] name = "respond_unreachable" ->
            ResponseObj(UnreachableCode, Dict(<<<<ContentTypeName, TextT>>>>),
                        PassBool(TRUE), TextB, DefaultContext)

\* resp_callback(responseobj), err_callback(responseobj)
ApplyResponseHook(name, obj) ==
    CASE name = "identity" -> obj
      [] name = "pass_none" -> [obj EXCEPT !.pass_headers = PassBool(FALSE)]
      [] name = "pass_content_type" ->
            [obj EXCEPT !.pass_headers = PassList(<<Lower(ContentTypeName)>>)]
      [] name = "unreachable" -> [obj EXCEPT !.code = UnreachableCode]

RequestHooks == {"identity", "tag_context", "set_body", "respond", "respond_unreachable"}

ResponseHooks == {"identity", "unreachable"}

\* ------------------------------------------------------------------------
\* The handler's effects.  h is the handler's state while one of its methods
\* runs: [calls, mod, client, exc].
\* ------------------------------------------------------------------------

NoExc == ""

Call(h, fn, arg) == [h EXCEPT !.calls = Append(@, [fn |-> fn, arg |-> arg])]

Raise(h, e) == [h EXCEPT !.exc = e]

\* Faulty variant: the status is never set
set_status_skipped(h, code) == h

\* RequestHandler.set_status
set_status(h, code) == [h EXCEPT !.client.status = code]

\* RequestHandler.write
write(h, chunk) == [h EXCEPT !.client.body = Append(@, chunk)]

\* RequestHandler.finish
finish(h) == [h EXCEPT !.client.finished = @ + 1]

\* RequestHandler.set_header: the value replaces what the name held
set_header(h, name, value) ==
    [h EXCEPT !.client.headers =
        Append(Without(@, NormalizeName(name)), <<NormalizeName(name), value>>)]

\* RequestHandler.set_cookie(key, value, expires=expires, **params)
set_cookie(h, key, value, expires, params) ==
    [h EXCEPT !.client.cookies =
        Append(@, [key |-> key, value |-> value, expires |-> expires, params |-> params])]

\* one pass of the loop over the cookies (lines 282-292)
EmitCookie(h, cookie) ==
    LET params == [a \in Reserved \ {ExpiresAttr} |-> cookie.attrs[a]]
        expires == cookie.attrs[ExpiresAttr]
    IN IF Truthy(expires) /\ ~DateParses(expires)
       THEN Raise(h, "ValueError")
       ELSE set_cookie(h, cookie.key, cookie.value,
                       IF Truthy(expires) THEN ParseDate(expires) ELSE NoDate,
                       params)

RECURSIVE EmitCookies(_, _)
EmitCookies(h, jar) ==
    IF jar = <<>> \/ h.exc # NoExc THEN h
    ELSE EmitCookies(EmitCookie(h, jar[1]), Tail(jar))

\* one pass of the loop over header_keys (lines 277-295)
EmitKey(h, m, key) ==
    IF Lower(key) = SetCookieLower
    THEN IF m.headers.kind # "HTTPHeaders"
         THEN Raise(h, "AttributeError")
         ELSE EmitCookies(h, LoadAll(<<>>, get_list(m.headers, SetCookieName)))
    ELSE LET val == Get(m.headers, key, None)
         IN IF val = None THEN Raise(h, "TypeError") ELSE set_header(h, key, val)

RECURSIVE EmitKeys(_, _, _)
EmitKeys(h, m, keys) ==
    IF keys = <<>> \/ h.exc # NoExc THEN h
    ELSE EmitKeys(EmitKey(h, m, keys[1]), m, Tail(keys))

\* header_keys
HeaderKeys(m) ==
    IF m.pass_headers.type = "bool"
    THEN IF m.pass_headers.flag THEN Keys(m.headers) ELSE <<>>
    ELSE m.pass_headers.names

\* handle_response from the status on: status, headers, cookies, body, finish
Emit(h, m) ==
    LET h1 == set_status(h, m.code)
        h2 == EmitKeys(h1, m, HeaderKeys(m))
    IN IF h2.exc # NoExc THEN h2
       ELSE finish(IF Truthy(m.body) THEN write(h2, m.body) ELSE h2)

\* Faulty variant: code 599 without the return: the rest of handle_response runs too
Emit599FallsThrough(h, m) ==
    Emit(finish(write(set_status(h, ServerError), UnreachableBody)), m)

\* Faulty variant: code 599 only remapped to 500: headers, cookies and body as set
Emit599AsStatus(h, m) == Emit(h, [m EXCEPT !.code = ServerError])

\* handle_response for code 599: status 500, the fixed text, finish, return
Emit599(h, m) == finish(write(set_status(h, ServerError), UnreachableBody))

\* Faulty variant: the wire response as a ResponseObj, its headers as they came
TranslateUnchanged(response, context) ==
    ResponseObj(response.code, response.headers, PassBool(TRUE), response.body, context)

\* the wire response as a ResponseObj (the gzip headers removed)
Translate(response, context) ==
    LET gz == Contains(Get(response.headers, ContentEncodingName, <<>>), Gzip)
        d == Del(response.headers, ContentEncodingName)
        hs == IF ~gz THEN response.headers
              ELSE IF HasKey(d, TransferEncodingName) THEN Del(d, TransferEncodingName)
              ELSE d
    IN ResponseObj(response.code, hs, PassBool(TRUE), response.body, context)

\* Faulty variant: the error flag ignored
HookForAlwaysResponse(error) == "resp_callback"

\* which hook handle_response calls
HookFor(error) == IF error THEN "err_callback" ELSE "resp_callback"

\* handle_response(response, context, error)
handle_response(h, response, context, error) ==
    LET responseobj == IF response.class # "ResponseObj"
                       THEN Translate(response, context)
                       ELSE response
        fn == HookFor(error)
        m == ApplyResponseHook(IF fn = "err_callback" THEN err_callback ELSE resp_callback,
                               responseobj)
        h1 == [Call(h, fn, responseobj) EXCEPT !.mod = m]
    IN IF m.code = UnreachableCode THEN Emit599(h1, m) ELSE Emit(h1, m)

\* Faulty variant: the hard failure written but not finished
HardFailureUnfinished(h, e) ==
    write(set_status(h, ServerError), HardFailurePrefix \o e.message)

\* the except branch of handle_request for an HTTPError without a response
HardFailure(h, e) == finish(write(set_status(h, ServerError), HardFailurePrefix \o e.message))

\* Faulty variant: the request hook's response handled as an error
ShortCircuitErrorSet == TRUE

\* error= of the handle_response call for what the request hook returned
ShortCircuitError == FALSE

\* Faulty variant: one context kept for all handlers: that of the first request
\* whose fetch is under way
CallbackContextShared(r) ==
    modrequestobj[CHOOSE q \in DOMAIN pc :
                     pc[q] = "fetching" /\ \A q2 \in DOMAIN pc : pc[q2] = "fetching" => q <= q2].context

\* context of _resp_callback of request r: the closure's modrequestobj.context
CallbackContext(r) == modrequestobj[r].context

\* context of the handle_response call of the except branch
ErrorContext(m) == m.context

\* ------------------------------------------------------------------------
\* ProxyHandler.handle_request
\* ------------------------------------------------------------------------

\* Faulty variant: the hook's answer not recognised
ShortCircuitsNever(m) == FALSE

\* isinstance(modrequestobj, ResponseObj): the hook answered the request itself
ShortCircuits(m) == m.class = "ResponseObj"

\* Faulty variant: e.response handled as an error and then as a response
ExceptBothHooks(h, m, e) ==
    IF e.response.class # "NoneType"
    THEN handle_response(handle_response(h, e.response, ErrorContext(m), TRUE),
                         e.response, ErrorContext(m), FALSE)
    ELSE HardFailure(h, e)

\* the except branch of handle_request: e.response is handled as an error,
\* an HTTPError without a response is a hard failure
Except(h, m, e) ==
    IF e.response.class # "NoneType"
    THEN handle_response(h, e.response, ErrorContext(m), TRUE)
    ELSE HardFailure(h, e)

\* ------------------------------------------------------------------------
\* Inputs
\* ------------------------------------------------------------------------

HostA == <<"a">>

\* client.fetch was not called
NotFetched == [kind |-> "none", response |-> NoObj, message |-> <<>>]

\* client.fetch returned and will call _resp_callback later
Pending == [kind |-> "pending", response |-> NoObj, message |-> <<>>]

\* client.fetch called _resp_callback(response)
Delivered(response) == [kind |-> "response", response |-> response, message |-> <<>>]

\* client.fetch raised an HTTPError e: e.response, and str(e)
HTTPError(response, message) ==
    [kind |-> "HTTPError", response |-> response, message |-> message]

\* an inbound wire request (tornado.httpserver.HTTPRequest)
WireRequest(method, uri, body) ==
    [method |-> method, uri |-> uri, protocol |-> Http, host |-> HostA,
     body |-> body, headers |-> HTTPHeaders(<<>>)]

UriPath == <<"/", "p">>

UriAbsolute == <<"h", "t", "t", "p", ":", "/", "/", "a", "/", "p", "?", "q">>

CookieGood == <<"a", "=", "1", ";", " ", "e", "x", "p", "i", "r", "e", "s", "=", "2", "0", "2", "1">>

CookieBadDate == <<"a", "=", "1", ";", " ", "e", "x", "p", "i", "r", "e", "s", "=", "z", "z">>

Chunked == <<"c", "h", "u", "n", "k", "e", "d">>

ResponseHeaders ==
    {HTTPHeaders(<<>>),
     HTTPHeaders(<<<<ContentTypeName, TextT>>, <<SetCookieName, CookieGood>>>>),
     HTTPHeaders(<<<<SetCookieName, CookieBadDate>>>>),
     HTTPHeaders(<<<<ContentEncodingName, Gzip>>, <<TransferEncodingName, Chunked>>>>)}

WireRequests ==
    {WireRequest(m, u, b) : m \in {"GET", "POST"}, u \in {UriPath, UriAbsolute},
                            b \in {<<>>, TextB}}

WireResponses ==
    {HTTPResponse(c, hs, b) : c \in {200, 404, UnreachableCode}, hs \in ResponseHeaders,
                              b \in {<<>>, TextB}}

FailureTexts == {<<"r", "e", "f", "u", "s", "e", "d">>, <<"t", "i", "m", "e", "o", "u", "t">>}

Outcomes ==
    {Pending} \cup {HTTPError(resp, <<>>) : resp \in WireResponses}
        \cup {HTTPError(NoObj, t) : t \in FailureTexts}

\* ------------------------------------------------------------------------
\* Specification: one inbound request, any hooks
\* ------------------------------------------------------------------------

NewClient == [status |-> 200, headers |-> <<>>, cookies |-> <<>>, body |-> <<>>, finished |-> 0]

\* The proxy made with some hooks, and the inbound requests ids not yet handled.
InitWith(ids, reqHooks, respHooks, errHooks) ==
    /\ req_callback \in reqHooks
    /\ resp_callback \in respHooks
    /\ err_callback \in errHooks
    /\ pc = [r \in ids |-> "new"]
    /\ request = [r \in ids |-> NoObj]
    /\ modrequestobj = [r \in ids |-> NoObj]
    /\ outreq = [r \in ids |-> NoObj]
    /\ fetched = [r \in ids |-> NotFetched]
    /\ calls = [r \in ids |-> <<>>]
    /\ mod = [r \in ids |-> NoObj]
    /\ client = [r \in ids |-> NewClient]
    /\ exc = [r \in ids |-> NoExc]

Handler(r) == [calls |-> calls[r], mod |-> mod[r], client |-> client[r], exc |-> exc[r]]

\* the handler of r returned (or raised), leaving h
Store(r, h, waits) ==
    /\ calls' = [calls EXCEPT ![r] = h.calls]
    /\ mod' = [mod EXCEPT ![r] = h.mod]
    /\ client' = [client EXCEPT ![r] = h.client]
    /\ exc' = [exc EXCEPT ![r] = h.exc]
    /\ pc' = [pc EXCEPT ![r] = IF h.exc # NoExc THEN "raised"
                               ELSE IF waits THEN "fetching" ELSE "done"]

\* get/post/...: the server hands inbound request r to handle_request, which
\* runs until it returns: to the end of handle_response when the request hook
\* answered, else to the return of client.fetch (outcome: the fetch is under
\* way, or it raised an HTTPError and the except branch ran)
HandleRequest(r, wires, outcomes) ==
    /\ pc[r] = "new"
    /\ \E req \in wires, outcome \in outcomes :
       \E made \in {make_requestobj(r, req)} :
       \E requestobj \in {DropBody(made[1])} :
       \E m \in {ApplyRequestHook(req_callback, requestobj)} :
       \E h0 \in {Call(Handler(r), "req_callback", requestobj)} :
          /\ request' = [request EXCEPT ![r] = req]
          /\ modrequestobj' = [modrequestobj EXCEPT ![r] = m]
          /\ IF ShortCircuits(m)
             THEN /\ outreq' = outreq
                  /\ fetched' = fetched
                  /\ Store(r, handle_response(h0, m, DefaultContext, ShortCircuitError), FALSE)
             ELSE IF m.class # "RequestObj"
             THEN /\ outreq' = outreq
                  /\ fetched' = fetched
                  /\ Store(r, Raise(Call(h0, "make_request", m), "AttributeError"), FALSE)
             ELSE \E out \in {make_request(m, made[2])} :
                  \E h1 \in {Call(Call(h0, "make_request", m), "fetch", out)} :
                     /\ outreq' = [outreq EXCEPT ![r] = out]
                     /\ fetched' = [fetched EXCEPT ![r] = outcome]
                     /\ IF outcome.kind = "pending"
                        THEN Store(r, h1, TRUE)
                        ELSE Store(r, Except(h1, m, outcome), FALSE)
    /\ UNCHANGED config

\* the fetch of r completes: _resp_callback(response)
FetchCallback(r, responses) ==
    /\ pc[r] = "fetching"
    /\ \E response \in responses :
       \E h \in {Handler(r)}, context \in {CallbackContext(r)} :
          /\ fetched' = [fetched EXCEPT ![r] = Delivered(response)]
          /\ Store(r, handle_response(h, response, context, FALSE), FALSE)
    /\ UNCHANGED <<config, request, modrequestobj, outreq>>

Init == InitWith({1}, RequestHooks, ResponseHooks, ResponseHooks)

Next ==
    \/ \E r \in DOMAIN pc : HandleRequest(r, WireRequests, Outcomes)
    \/ \E r \in DOMAIN pc : FetchCallback(r, WireResponses)

Spec == Init /\ [][Next]_vars

\* ------------------------------------------------------------------------
\* Specification: concurrent inbound requests, interleaved at the fetch
\* ------------------------------------------------------------------------

NumRequests == 2

UriOther == <<"/", "q">>

ConcurrentRequests == {WireRequest("GET", u, <<>>) : u \in {UriPath, UriOther}}

ConcurrentResponses ==
    {HTTPResponse(c, HTTPHeaders(<<>>), TextB) : c \in {200, 404}}

ConcurrentOutcomes ==
    {Pending, HTTPError(HTTPResponse(404, HTTPHeaders(<<>>), TextB), <<>>)}
        \cup {HTTPError(NoObj, t) : t \in FailureTexts}

InitConcurrent == InitWith(1..NumRequests, {"tag_context"}, {"identity"}, {"identity"})

NextConcurrent ==
    \/ \E r \in DOMAIN pc : HandleRequest(r, ConcurrentRequests, ConcurrentOutcomes)
    \/ \E r \in DOMAIN pc : FetchCallback(r, ConcurrentResponses)

SpecConcurrent == InitConcurrent /\ [][NextConcurrent]_vars

\* ------------------------------------------------------------------------
\* Specification: the URL of one inbound request through make_requestobj and
\* make_request, the request hook being the identity
\* ------------------------------------------------------------------------

Https == <<"h", "t", "t", "p", "s">>

\* scheme://[userinfo@]host[:port]path[?query][#fragment], each part optional
\* where <<>> stands for its absence
AbsoluteUrls ==
    {scheme \o <<":", "/", "/">> \o userinfo \o host \o portpart \o path \o query \o fragment :
        scheme \in {Http, Https},
        userinfo \in {<<>>, <<"u", ":", "w", "@">>},
        host \in {HostA, <<"B">>},
        portpart \in {<<>>, <<":", "8", "0">>, <<":", "8", "1">>},
        path \in {<<>>, <<"/">>, <<"/", "p">>, <<"/", "/", "p">>},
        query \in {<<>>, <<"?", "q">>},
        fragment \in {<<>>, <<"#", "f">>}}

UrlRequests == {WireRequest("GET", u, <<>>) : u \in AbsoluteUrls}

InitUrl == InitWith({1}, {"identity"}, {"identity"}, {"identity"})

NextUrl == \E r \in DOMAIN pc : HandleRequest(r, UrlRequests, {Pending})

SpecUrl == InitUrl /\ [][NextUrl]_vars

\* ------------------------------------------------------------------------
\* Specification: the URL of one inbound request through make_requestobj, a
\* request hook that may set the port or the credentials, and make_request
\* ------------------------------------------------------------------------

\* an inbound wire request with the protocol and the Host the server saw
WireRequestAt(method, uri, body, protocol, host) ==
    [method |-> method, uri |-> uri, protocol |-> protocol, host |-> host,
     body |-> body, headers |-> HTTPHeaders(<<>>)]

\* URLs whose userinfo holds a user name and no password
UserOnlyUrls ==
    {Http \o <<":", "/", "/", "u", "@">> \o HostA \o portpart \o path :
        portpart \in {<<>>, <<":", "8", "1">>},
        path \in {<<>>, <<"/", "p">>}}

\* request URIs that are a path only
PathUris ==
    {path \o query \o fragment :
        path \in {<<"/">>, <<"/", "p">>},
        query \in {<<>>, <<"?", "q">>},
        fragment \in {<<>>, <<"#", "f">>}}

\* the Host header: a host, with or without a port
Hosts == {HostA, <<"B">>, <<"a", ":", "8", "1">>, <<"a", ":", "8", "0">>}

\* absolute request URIs whose scheme is not written http...
OtherSchemeUris ==
    {<<"f", "t", "p", ":", "/", "/", "b", "/", "p">>,
     <<"H", "T", "T", "P", ":", "/", "/", "b", "/", "p">>,
     <<"H", "t", "t", "p", "s", ":", "/", "/", "b", ":", "8", "1", "/", "p", "?", "q">>}

HookedUrlRequests ==
    UrlRequests
        \cup {WireRequest("GET", u, <<>>) : u \in UserOnlyUrls}
        \cup {WireRequestAt("GET", u, <<>>, proto, host) :
                 u \in PathUris, proto \in {Http, Https}, host \in Hosts}
        \cup {WireRequestAt("GET", u, <<>>, proto, host) :
                 u \in OtherSchemeUris, proto \in {Http, Https}, host \in {HostA, <<"B">>}}

UrlHooks == {"identity", "port_zero", "port_https", "set_username", "set_password"}

InitHookedUrl == InitWith({1}, UrlHooks, {"identity"}, {"identity"})

NextHookedUrl == \E r \in DOMAIN pc : HandleRequest(r, HookedUrlRequests, {Pending})

SpecHookedUrl == InitHookedUrl /\ [][NextHookedUrl]_vars

\* ------------------------------------------------------------------------
\* Specification: one inbound request forwarded as it is, upstream responses
\* of many header sets, and response and error hooks that set pass_headers
\* ------------------------------------------------------------------------

CookieA1 == <<"a", "=", "1">>
CookieA2 == <<"a", "=", "2">>
CookieB2 == <<"b", "=", "2">>

\* a content coding that is not gzip and holds the text gzip
XGzip == <<"x">> \o Gzip

Deflate == <<"d", "e", "f", "l", "a", "t", "e">>

EmitHeaders ==
    {HTTPHeaders(<<>>),
     HTTPHeaders(<<<<ContentTypeName, TextT>>>>),
     HTTPHeaders(<<<<ContentTypeName, TextT>>, <<SetCookieName, CookieGood>>,
                   <<SetCookieName, CookieB2>>>>),
     HTTPHeaders(<<<<SetCookieName, CookieA1>>, <<SetCookieName, CookieA2>>>>),
     HTTPHeaders(<<<<SetCookieName, CookieBadDate>>, <<ContentTypeName, TextT>>>>),
     HTTPHeaders(<<<<ContentEncodingName, Gzip>>, <<TransferEncodingName, Chunked>>,
                   <<ContentTypeName, TextT>>>>),
     HTTPHeaders(<<<<ContentEncodingName, Gzip>>>>),
     HTTPHeaders(<<<<ContentEncodingName, XGzip>>, <<TransferEncodingName, Chunked>>>>),
     HTTPHeaders(<<<<TransferEncodingName, Chunked>>>>),
     HTTPHeaders(<<<<ContentEncodingName, Deflate>>, <<TransferEncodingName, Chunked>>>>)}

EmitResponses ==
    {HTTPResponse(c, hs, TextB) : c \in {200, 302, 404, 503, UnreachableCode}, hs \in EmitHeaders}

EmitOutcomes == {Pending} \cup {HTTPError(resp, <<>>) : resp \in EmitResponses}

EmitRequests == {WireRequest("GET", UriPath, <<>>)}

EmitHooks == {"identity", "pass_none", "pass_content_type"}

InitEmit == InitWith({1}, {"identity"}, EmitHooks, EmitHooks)

NextEmit ==
    \/ \E r \in DOMAIN pc : HandleRequest(r, EmitRequests, EmitOutcomes)
    \/ \E r \in DOMAIN pc : FetchCallback(r, EmitResponses)

SpecEmit == InitEmit /\ [][NextEmit]_vars

\* ------------------------------------------------------------------------
\* Properties
\* ------------------------------------------------------------------------

Requests == DOMAIN pc

RECURSIVE HookCallsOf(_)
HookCallsOf(cs) ==
    IF cs = <<>> THEN <<>>
    ELSE IF cs[1].fn \in {"resp_callback", "err_callback"}
    THEN <<cs[1]>> \o HookCallsOf(Tail(cs))
    ELSE HookCallsOf(Tail(cs))

\* the calls of the response hook and of the error hook for r, in order
HookCalls(r) == HookCallsOf(calls[r])

Invoked(r, fn) == \E i \in 1..Len(calls[r]) : calls[r][i].fn = fn

\* the request hook of r returned a ResponseObj
ShortCircuited(r) == modrequestobj[r].class = "ResponseObj"

\* the fetch of r raised an HTTPError that carries a response
PartialError(r) ==
    fetched[r].kind = "HTTPError" /\ fetched[r].response.class = "HTTPResponse"

\* the fetch of r raised an HTTPError that carries no response
HardFailed(r) ==
    fetched[r].kind = "HTTPError" /\ fetched[r].response.class = "NoneType"

\* the fetch of r called back with a response
Succeeded(r) == fetched[r].kind = "response"

\* C1: when the request hook returns a ResponseObj, make_request and the fetch
\* are not invoked for that request, then or in any later step.
C1_ShortCircuitNeverForwards ==
    \A r \in Requests :
        ShortCircuited(r) =>
            /\ ~Invoked(r, "make_request")
            /\ ~Invoked(r, "fetch")
            /\ outreq[r] = NoObj
            /\ pc[r] # "fetching"

C1_Witness ==
    \E r \in Requests : ShortCircuited(r) /\ pc[r] = "done" /\ client[r].finished = 1

\* C2: the response of each inbound request is finished at most once, on every
\* path (short circuit, fetch callback, error with a response, hard failure,
\* code 599).
C2_FinishedAtMostOnce == \A r \in Requests : client[r].finished <= 1

C2_Witness ==
    \E r \in Requests :
        /\ PartialError(r)
        /\ mod[r].class = "ResponseObj" /\ mod[r].code = UnreachableCode
        /\ client[r].finished = 1

\* C3 (as claimed): every inbound request handed to handle_request ends with
\* its response finished; when the handler has nothing left to run, the
\* response is finished.
C3_HandledIsFinished ==
    \A r \in Requests : pc[r] \in {"done", "raised"} => client[r].finished = 1

\* C4: an HTTPError with a response goes to the error hook, as the ResponseObj
\* built from that response, and not to the response hook; a response delivered
\* to the callback goes to the response hook and not to the error hook.
C4_HookByOutcome ==
    \A r \in Requests :
        /\ PartialError(r) =>
              HookCalls(r) =
                 <<[fn |-> "err_callback",
                    arg |-> Translate(fetched[r].response, modrequestobj[r].context)]>>
        /\ Succeeded(r) =>
              HookCalls(r) =
                 <<[fn |-> "resp_callback",
                    arg |-> Translate(fetched[r].response, modrequestobj[r].context)]>>

C4_Witness ==
    \E r \in Requests :
        PartialError(r) /\ Invoked(r, "err_callback") /\ err_callback # resp_callback

\* C5 (as claimed): after a hard failure the status is 500, the body is a fixed
\* text that does not depend on the failure, the response is finished and no
\* hook was invoked.
C5_HardFailureFixedBody ==
    \A r \in Requests :
        HardFailed(r) =>
            /\ client[r].status = ServerError
            /\ client[r].finished = 1
            /\ HookCalls(r) = <<>>
            /\ \A q \in Requests : HardFailed(q) => client[q].body = client[r].body

\* C5 (amended): after a hard failure the status is 500, the body is
\* 'Internal server error:\n' followed by the text of the failure, the
\* response is finished and no hook was invoked.
C5_HardFailure ==
    \A r \in Requests :
        HardFailed(r) =>
            /\ client[r].status = ServerError
            /\ client[r].body = <<HardFailurePrefix \o fetched[r].message>>
            /\ client[r].finished = 1
            /\ HookCalls(r) = <<>>
            /\ pc[r] = "done"

C5_Witness ==
    \E r, q \in Requests :
        HardFailed(r) /\ HardFailed(q) /\ fetched[r].message # fetched[q].message

\* C6 (as claimed): the response hook is invoked only for a response of a
\* successful fetch; what the request hook returned is emitted without the
\* response hook or the error hook being invoked on it.
C6_ShortCircuitSkipsHooks ==
    \A r \in Requests :
        /\ Invoked(r, "resp_callback") => Succeeded(r)
        /\ ShortCircuited(r) => HookCalls(r) = <<>>

\* C6 (amended): the response hook is invoked for a response of a successful
\* fetch and for the ResponseObj the request hook returned: on the short
\* circuit that object is given once to the response hook, never to the error
\* hook, and what the hook returns is emitted.
C6_ShortCircuitRunsResponseHook ==
    \A r \in Requests :
        /\ Invoked(r, "resp_callback") => Succeeded(r) \/ ShortCircuited(r)
        /\ ShortCircuited(r) =>
              /\ HookCalls(r) = <<[fn |-> "resp_callback", arg |-> modrequestobj[r]]>>
              /\ mod[r] = ApplyResponseHook(resp_callback, modrequestobj[r])

C6_Witness ==
    \E r \in Requests :
        /\ ShortCircuited(r)
        /\ resp_callback = "unreachable"
        /\ modrequestobj[r].code = 200
        /\ client[r].status = ServerError

\* C7: a ResponseObj that reaches emission with code 599, whatever its headers,
\* pass_headers and body, gives status 500 and the fixed text as the whole
\* body, no header, no cookie, and a finished response.
C7_UnreachableIsFixed ==
    \A r \in Requests :
        mod[r].class = "ResponseObj" /\ mod[r].code = UnreachableCode =>
            client[r] = [status |-> ServerError, headers |-> <<>>, cookies |-> <<>>,
                         body |-> <<UnreachableBody>>, finished |-> 1]

C7_Witness ==
    \E r \in Requests :
        /\ mod[r].class = "ResponseObj" /\ mod[r].code = UnreachableCode
        /\ HasKey(mod[r].headers, SetCookieName)
        /\ Truthy(mod[r].body)
        /\ client[r].finished = 1

\* C8 (as claimed): the HTTPRequest handed to the fetch has no body unless its
\* method is POST, PUT or PATCH, also for a request the hook modified.
C8_BodyOnlyForBodyMethods ==
    \A r \in Requests :
        outreq[r].class = "HTTPRequest" /\ outreq[r].body # None =>
            outreq[r].method \in {"POST", "PUT", "PATCH"}

\* C9: the ResponseObj given to the response or error hook of request r
\* carries the context of the RequestObj the request hook of r returned, and
\* not that of another request, whatever the order of completion.
C9_ContextIsOwn ==
    \A r \in Requests :
        ~ShortCircuited(r) =>
            \A i \in 1..Len(calls[r]) :
                calls[r][i].fn \in {"resp_callback", "err_callback"} =>
                    /\ calls[r][i].arg.context = modrequestobj[r].context
                    /\ \A q \in Requests \ {r} :
                          modrequestobj[q].class = "RequestObj" =>
                              calls[r][i].arg.context # modrequestobj[q].context

C9_Witness ==
    \E r, q \in Requests :
        /\ r > q
        /\ pc[q] = "fetching"
        /\ Succeeded(r) /\ Invoked(r, "resp_callback")
        /\ modrequestobj[r].context.data # modrequestobj[q].context.data

\* port or 80, for a parsed URL
PortOrDefault(p) == IF port(p) = NoPort \/ port(p) = 0 THEN DefaultPort ELSE port(p)

\* C10 (as claimed): for an absolute inbound URL x and the identity hook, the
\* URL make_request builds parses to the scheme, host, path, query and fragment
\* of x, and has no port exactly when the port of x is 80.
C10_UrlRoundTrip ==
    \A r \in Requests :
        outreq[r].class = "HTTPRequest" /\ req_callback = "identity"
              /\ StartsWith(request[r].uri, Http) =>
            \E x \in {urlparse(request[r].uri)}, y \in {urlparse(outreq[r].url)} :
                /\ y.scheme = x.scheme
                /\ hostname(y) = hostname(x)
                /\ y.path = x.path
                /\ y.query = x.query
                /\ y.fragment = x.fragment
                /\ (port(y) = NoPort) <=> (PortOrDefault(x) = DefaultPort)

\* the host[:port] of the URL handed to the fetch of r
OutHostPort(r) == HostPort(urlparse(outreq[r].url).netloc)

\* C11 (as claimed): a RequestObj of port 80 gives a URL without a port, one of
\* any other port (0 and 443 included) a URL with ':' and that port after the
\* host.
C11_PortExplicitUnless80 ==
    \A r \in Requests :
        outreq[r].class = "HTTPRequest" =>
            \E obj \in {modrequestobj[r]} :
                IF obj.port = DefaultPort
                THEN ~StartsWith(OutHostPort(r), Format(obj.host) \o <<":">>)
                ELSE StartsWith(OutHostPort(r),
                                Format(obj.host) \o <<":">> \o StrNat(obj.port))

\* C11 (amended): a RequestObj of port 80, or of a port that is false (0),
\* gives a URL without a port; one of any other port gives a URL with ':' and
\* that port after the host.
C11_PortExplicitUnlessDefault ==
    \A r \in Requests :
        outreq[r].class = "HTTPRequest" =>
            \E obj \in {modrequestobj[r]} :
                IF obj.port = DefaultPort \/ obj.port = 0
                THEN ~StartsWith(OutHostPort(r), Format(obj.host) \o <<":">>)
                ELSE StartsWith(OutHostPort(r),
                                Format(obj.host) \o <<":">> \o StrNat(obj.port))

C11_Witness ==
    \E r \in Requests :
        /\ outreq[r].class = "HTTPRequest"
        /\ req_callback = "port_zero"
        /\ modrequestobj[r].port = 0
        /\ port(urlparse(request[r].uri)) = 81

\* the RequestObj make_requestobj made for r (what the request hook was given)
MadeObj(r) == calls[r][1].arg

\* the absolute form of the request URI of r: the URI itself when it carries
\* a scheme, else the declared protocol and host before it
AbsoluteForm(req) ==
    IF urlparse(req.uri).scheme # <<>> THEN req.uri
    ELSE req.protocol \o <<":", "/", "/">> \o req.host \o req.uri

\* C17 (as claimed): make_requestobj gives the scheme, host, port, path, query
\* and fragment of the absolute form of the request URI: a URI that carries a
\* scheme is parsed as it is, one without a scheme after the declared protocol
\* and host.
C17_SameTupleAsAbsolute ==
    \A r \in Requests :
        pc[r] # "new" =>
            \E obj \in {MadeObj(r)}, x \in {urlparse(AbsoluteForm(request[r]))} :
                /\ obj.protocol = x.scheme
                /\ obj.host = hostname(x)
                /\ obj.port = PortOrDefault(x)
                /\ obj.path = x.path
                /\ obj.query = x.query
                /\ obj.fragment = x.fragment

\* the text of a credential in a URL: nothing for one that is not set
Credential(v) == IF Truthy(v) THEN v ELSE <<>>

\* C19 (as claimed): the URL has a user:password@ authority exactly when one of
\* the override or original user name or password is set; the user is the
\* override if set, else the original, and so is the password; a part that is
\* not set is not written as a placeholder.
C19_AuthIsCredentials ==
    \A r \in Requests :
        outreq[r].class = "HTTPRequest" =>
            \E obj \in {modrequestobj[r]},
               orig \in {make_requestobj(r, request[r])[2]},
               netloc \in {urlparse(outreq[r].url).netloc} :
               \E user \in {Or(obj.username, username(orig))},
                  pass \in {Or(obj.password, password(orig))} :
                  IF Truthy(user) \/ Truthy(pass)
                  THEN StartsWith(netloc, Credential(user) \o <<":">> \o Credential(pass)
                                            \o <<"@">> \o Format(obj.host))
                  ELSE RFind(netloc, "@") = 0

\* the handler of r has nothing left to run
Ended(r) == pc[r] \in {"done", "raised"}

\* r reached the emission of a ResponseObj whose code is not 599
Emitting(r) == mod[r].class = "ResponseObj" /\ mod[r].code # UnreachableCode

\* the Set-Cookie values of m hold an expires that is not a date
DateFails(m) ==
    \E v \in {get_list(m.headers, SetCookieName)} :
    \E i \in 1..Len(v) :
    \E jar \in {Load(<<>>, v[i])} :
    \E j \in 1..Len(jar) :
        Truthy(jar[j].attrs[ExpiresAttr]) /\ ~DateParses(jar[j].attrs[ExpiresAttr])

\* Set-Cookie is among the header keys of m
CookiesListed(m) ==
    \E k \in {HeaderKeys(m)} : \E i \in 1..Len(k) : Lower(k[i]) = SetCookieLower

\* the header names the client of r was sent (cookies go out as Set-Cookie)
EmittedNames(r) ==
    {client[r].headers[i][1] : i \in 1..Len(client[r].headers)}
        \cup (IF client[r].cookies # <<>> THEN {SetCookieName} ELSE {})

\* the header names pass_headers of m selects
SelectedNames(m) ==
    IF m.pass_headers.type = "bool"
    THEN IF m.pass_headers.flag THEN {Keys(m.headers)[i] : i \in 1..Len(Keys(m.headers))}
         ELSE {}
    ELSE {NormalizeName(m.pass_headers.names[i]) :
             i \in {j \in 1..Len(m.pass_headers.names) :
                       HasKey(m.headers, m.pass_headers.names[j])}}

\* C12 (as claimed): a ResponseObj of a code other than 599 is emitted and
\* finished with the header names pass_headers selects: all keys for True,
\* none for False, and for a collection the listed names that match a key, a
\* listed name without a header being left out.  (Cookie dates that do not
\* parse are the matter of C15.)
C12_PassHeadersSelects ==
    \A r \in Requests :
        Ended(r) /\ Emitting(r) /\ ~DateFails(mod[r]) =>
            /\ client[r].finished = 1
            /\ EmittedNames(r) = SelectedNames(mod[r])

\* the Content-Encoding value names the coding gzip
IndicatesGzip(v) ==
    \E t \in {SplitOn(v, ",")} : \E i \in 1..Len(t) : Strip(t[i]) = Gzip

\* the wire response handled for r
Upstream(r) == fetched[r].response

\* C13: when the Content-Encoding of the wire response is gzip, the
\* ResponseObj given to the response or error hook has no Content-Encoding and
\* no Transfer-Encoding header, with or without a Transfer-Encoding upstream.
C13_GzipStripsEncodings ==
    \A r \in Requests :
        (PartialError(r) \/ Succeeded(r))
              /\ IndicatesGzip(Get(Upstream(r).headers, ContentEncodingName, <<>>)) =>
            /\ Len(HookCalls(r)) = 1
            /\ ~HasKey(HookCalls(r)[1].arg.headers, ContentEncodingName)
            /\ ~HasKey(HookCalls(r)[1].arg.headers, TransferEncodingName)
            /\ HookCalls(r)[1].arg.headers.items =
                   Without(Without(Upstream(r).headers.items, ContentEncodingName),
                           TransferEncodingName)

C13_Witness ==
    \E r \in Requests :
        /\ Succeeded(r)
        /\ Get(Upstream(r).headers, ContentEncodingName, <<>>) = Gzip
        /\ HasKey(Upstream(r).headers, TransferEncodingName)
        /\ HasKey(Upstream(r).headers, ContentTypeName)
        /\ Invoked(r, "resp_callback")

\* C14 (as claimed): when Set-Cookie is among the emitted keys and headers
\* holds n Set-Cookie values, n cookies are set, the i-th with the name, value
\* and attributes of the i-th value, also when two values have one name.
C14_CookiePerValue ==
    \A r \in Requests :
        pc[r] = "done" /\ Emitting(r) /\ CookiesListed(mod[r]) =>
            \E v \in {get_list(mod[r].headers, SetCookieName)} :
                /\ Len(client[r].cookies) = Len(v)
                /\ \A i \in 1..Len(v) :
                      \E jar \in {Load(<<>>, v[i])} :
                         /\ client[r].cookies[i].key = jar[1].key
                         /\ client[r].cookies[i].value = jar[1].value
                         /\ \A a \in Reserved \ {ExpiresAttr} :
                               client[r].cookies[i].params[a] = jar[1].attrs[a]

\* C15 (as claimed): when a Set-Cookie value that is emitted has an expires
\* that is not a date, the response is still finished with the status, the
\* other headers and the body of the object, and the cookie is set without an
\* expiry.
C15_BadDateStillEmitted ==
    \A r \in Requests :
        Ended(r) /\ Emitting(r) /\ CookiesListed(mod[r]) /\ DateFails(mod[r]) =>
            /\ client[r].finished = 1
            /\ client[r].status = mod[r].code
            /\ client[r].body = <<mod[r].body>>
            /\ EmittedNames(r) = SelectedNames(mod[r])
            /\ \E i \in 1..Len(client[r].cookies) : client[r].cookies[i].expires = NoDate

\* C16: with the identity as response and error hook, an upstream response of
\* a code c other than 599, delivered to the callback or carried by an
\* HTTPError, gives the status c.
C16_StatusPassesThrough ==
    \A r \in Requests :
        resp_callback = "identity" /\ err_callback = "identity"
              /\ (PartialError(r) \/ Succeeded(r))
              /\ Upstream(r).code # UnreachableCode =>
            client[r].status = Upstream(r).code

C16_Witness ==
    \E r \in Requests :
        /\ resp_callback = "identity" /\ err_callback = "identity"
        /\ PartialError(r)
        /\ Upstream(r).code = 404
        /\ client[r].status = 404
        /\ client[r].finished = 1

\* C20 (as claimed): when the Content-Encoding of the wire response is absent
\* or is not gzip, also when it is another coding whose name holds the text
\* gzip, the ResponseObj given to the hook has the upstream headers unchanged,
\* Transfer-Encoding included.
C20_OnlyGzipStrips ==
    \A r \in Requests :
        (PartialError(r) \/ Succeeded(r))
              /\ ~IndicatesGzip(Get(Upstream(r).headers, ContentEncodingName, <<>>)) =>
            /\ Len(HookCalls(r)) = 1
            /\ HookCalls(r)[1].arg.headers = Upstream(r).headers

\* the places in the calls of r where fn was called
CallsTo(r, fn) == {i \in 1..Len(calls[r]) : calls[r][i].fn = fn}

\* C18: for every inbound request the request hook is invoked once, before
\* any fetch, and the response hook and the error hook are invoked at most
\* once between them, after the request hook has returned.
C18_HooksOnceInOrder ==
    \A r \in Requests :
        /\ pc[r] = "new" => calls[r] = <<>>
        /\ pc[r] # "new" =>
              /\ Cardinality(CallsTo(r, "req_callback")) = 1
              /\ calls[r][1].fn = "req_callback"
              /\ Cardinality(CallsTo(r, "fetch")) <= 1
              /\ \A i \in CallsTo(r, "fetch") : \A j \in CallsTo(r, "req_callback") : j < i
              /\ Len(HookCalls(r)) <= 1
              /\ \A i \in CallsTo(r, "resp_callback") \cup CallsTo(r, "err_callback") :
                    \A j \in CallsTo(r, "req_callback") : j < i

C18_Witness ==
    \E r \in Requests :
        /\ PartialError(r)
        /\ CallsTo(r, "req_callback") = {1}
        /\ CallsTo(r, "fetch") # {}
        /\ Len(HookCalls(r)) = 1
        /\ client[r].finished = 1

====
